---- MODULE Spec2Model ----
(***************************************************************************)
(* ParamMixture (src/edward/models/param_mixture.py): a mixture whose      *)
(* components all come from one distribution family.  The model follows    *)
(* the constructor, the two log-probabilities, the sampler and the moment  *)
(* accessors, with the tensors they manipulate represented exactly:        *)
(* a tensor is a shape and a value per index tuple.                        *)
(***************************************************************************)
EXTENDS Integers, Sequences, FiniteSets, TLC

(***************************************************************************)
(* Bounds of the model.                                                    *)
(***************************************************************************)
\* largest n of a sample(n) call
MaxN == 2
\* numbers of mixture components (sizes of the weights' last axis)
ComponentCounts == {1, 2}

\* sizes of the batch, event and sample axes
BatchShapes == {<<>>, <<2>>}
EventShapes == {<<>>, <<2>>}
SampleShapes == {<<>>, <<1>>, <<2>>}
\* seeds 1..MaxSeed stand for the outcomes of a collaborator's call made
\* after construction (seed 0 stands for the realization made at construction)
MaxSeed == 2
Seeds == 1..MaxSeed

(***************************************************************************)
(* Tensors.  Axes are numbered from 0 as in the source; a negative axis    *)
(* counts from the end.  Bad is the result of an operation that raises.    *)
(***************************************************************************)
RECURSIVE Idx(_)
Idx(shape) ==
  IF shape = <<>> THEN {<<>>}
  ELSE {<<i>> \o r : i \in 0..(shape[1] - 1), r \in Idx(Tail(shape))}

RECURSIVE Prod(_)
Prod(shape) == IF shape = <<>> THEN 1 ELSE shape[1] * Prod(Tail(shape))

Bad == [ok |-> FALSE, shape |-> <<>>, val |-> [i \in {} |-> 0]]

\* the tensor of the given shape and entries (a function on Idx(shape)); the
\* entries are computed once, when the tensor is built
Tensor(shape, entries) ==
  [ok |-> TRUE, shape |-> shape, val |-> entries @@ [i \in {} |-> 0]]

Rank(t) == Len(t.shape)

\* the sequence s without its element at position pos (1-based)
RemoveAt(s, pos) == SubSeq(s, 1, pos - 1) \o SubSeq(s, pos + 1, Len(s))

\* the sequence s with v inserted so that it stands at position pos (1-based)
InsertAt(s, pos, v) == SubSeq(s, 1, pos - 1) \o <<v>> \o SubSeq(s, pos, Len(s))

\* tf.expand_dims(t, axis)
ExpandDims(t, axis) ==
  IF ~t.ok THEN Bad
  ELSE LET pos == IF axis >= 0 THEN axis + 1 ELSE Rank(t) + 2 + axis IN
       IF pos < 1 \/ pos > Rank(t) + 1 THEN Bad
       ELSE LET f(idx) == t.val[RemoveAt(idx, pos)] IN
            Tensor(InsertAt(t.shape, pos, 1),
                [at \in Idx(InsertAt(t.shape, pos, 1)) |-> f(at)])

\* tf.one_hot(indices, depth, axis): 1 where the index along axis equals
\* the entry of indices at the remaining coordinates, 0 elsewhere
OneHot(indices, depth, axis) ==
  IF ~indices.ok \/ depth < 0 THEN Bad
  ELSE LET pos == IF axis = -1 THEN Rank(indices) + 1 ELSE axis + 1 IN
       IF pos < 1 \/ pos > Rank(indices) + 1 THEN Bad
       ELSE LET f(idx) == IF indices.val[RemoveAt(idx, pos)] = idx[pos]
                          THEN 1 ELSE 0 IN
            Tensor(InsertAt(indices.shape, pos, depth),
                [at \in Idx(InsertAt(indices.shape, pos, depth)) |-> f(at)])

\* left-pad a shape with size-1 axes up to rank r
RECURSIVE PadTo(_, _)
PadTo(shape, r) == IF Len(shape) >= r THEN shape ELSE PadTo(<<1>> \o shape, r)

Max(a, b) == IF a >= b THEN a ELSE b

\* numpy broadcasting of two shapes (right-aligned; equal sizes, or one is 1)
CanBroadcast(s1, s2) ==
  LET r == Max(Len(s1), Len(s2))
      p1 == PadTo(s1, r)
      p2 == PadTo(s2, r) IN
  \A i \in 1..r : p1[i] = p2[i] \/ p1[i] = 1 \/ p2[i] = 1

BroadcastShape(s1, s2) ==
  LET r == Max(Len(s1), Len(s2))
      p1 == PadTo(s1, r)
      p2 == PadTo(s2, r) IN
  [i \in 1..r |-> IF p1[i] = 1 THEN p2[i] ELSE p1[i]]

\* the index of the operand of shape s read for the result index idx
BroadcastIdx(idx, s) ==
  LET off == Len(idx) - Len(s) IN
  [i \in 1..Len(s) |-> IF s[i] = 1 THEN 0 ELSE idx[i + off]]

\* elementwise a * b with broadcasting
Mul(a, b) ==
  IF ~a.ok \/ ~b.ok THEN Bad
  ELSE IF ~CanBroadcast(a.shape, b.shape) THEN Bad
  ELSE LET f(idx) == a.val[BroadcastIdx(idx, a.shape)]
                     * b.val[BroadcastIdx(idx, b.shape)] IN
       Tensor(BroadcastShape(a.shape, b.shape),
           [at \in Idx(BroadcastShape(a.shape, b.shape)) |-> f(at)])

\* elementwise a + b with broadcasting
Add(a, b) ==
  IF ~a.ok \/ ~b.ok THEN Bad
  ELSE IF ~CanBroadcast(a.shape, b.shape) THEN Bad
  ELSE LET f(idx) == a.val[BroadcastIdx(idx, a.shape)]
                     + b.val[BroadcastIdx(idx, b.shape)] IN
       Tensor(BroadcastShape(a.shape, b.shape),
           [at \in Idx(BroadcastShape(a.shape, b.shape)) |-> f(at)])

\* elementwise a - b with broadcasting
Subtract(a, b) ==
  IF ~a.ok \/ ~b.ok THEN Bad
  ELSE IF ~CanBroadcast(a.shape, b.shape) THEN Bad
  ELSE LET f(idx) == a.val[BroadcastIdx(idx, a.shape)]
                     - b.val[BroadcastIdx(idx, b.shape)] IN
       Tensor(BroadcastShape(a.shape, b.shape),
           [at \in Idx(BroadcastShape(a.shape, b.shape)) |-> f(at)])

Square(a) == Mul(a, a)

RECURSIVE SumUpTo(_, _)
SumUpTo(g, n) == IF n = 0 THEN 0 ELSE g[n - 1] + SumUpTo(g, n - 1)

\* position (1-based) of a reduction axis, 0 when it is out of range
AxisPos(t, axis) ==
  LET a == IF axis < 0 THEN axis + Rank(t) ELSE axis IN
  IF a < 0 \/ a >= Rank(t) THEN 0 ELSE a + 1

\* tf.reduce_sum(t, axis)
ReduceSum(t, axis) ==
  IF ~t.ok THEN Bad
  ELSE LET pos == AxisPos(t, axis) IN
       IF pos = 0 THEN Bad
       ELSE LET f(idx) ==
                  SumUpTo([k \in 0..(t.shape[pos] - 1) |->
                             t.val[InsertAt(idx, pos, k)]], t.shape[pos]) IN
            Tensor(RemoveAt(t.shape, pos),
                [at \in Idx(RemoveAt(t.shape, pos)) |-> f(at)])

RECURSIVE Pow2(_)
Pow2(n) == IF n <= 0 THEN 1 ELSE 2 * Pow2(n - 1)

RECURSIVE Log2(_)
Log2(n) == IF n <= 1 THEN 0 ELSE 1 + Log2(n \div 2)

\* tf.log, base 2, on tensors whose entries are powers of two
Log(t) ==
  IF ~t.ok THEN Bad
  ELSE LET f(idx) == Log2(t.val[idx]) IN Tensor(t.shape,
      [at \in Idx(t.shape) |-> f(at)])

\* tf.reduce_logsumexp(t, axis), base 2.  The result is kept exponentiated:
\* the entry stored is 2^r for the logarithm r the source returns.
ReduceLogSumExp(t, axis) ==
  IF ~t.ok THEN Bad
  ELSE LET pos == AxisPos(t, axis) IN
       IF pos = 0 THEN Bad
       ELSE LET f(idx) ==
                  SumUpTo([k \in 0..(t.shape[pos] - 1) |->
                             Pow2(t.val[InsertAt(idx, pos, k)])], t.shape[pos]) IN
            Tensor(RemoveAt(t.shape, pos),
                [at \in Idx(RemoveAt(t.shape, pos)) |-> f(at)])

\* tf.transpose(t, perm): axis i of the result is axis perm[i] of t
Transpose(t, perm) ==
  IF ~t.ok THEN Bad
  ELSE LET f(idx) == t.val[[j \in 1..Rank(t) |->
                             idx[CHOOSE i \in 1..Rank(t) : perm[i] = j - 1]]] IN
       Tensor([i \in 1..Rank(t) |-> t.shape[perm[i] + 1]],
           [at \in Idx([i \in 1..Rank(t) |-> t.shape[perm[i] + 1]]) |-> f(at)])

\* integer square root, -1 standing for NaN (negative argument)
RECURSIVE ISqrtFrom(_, _)
ISqrtFrom(v, r) == IF (r + 1) * (r + 1) > v THEN r ELSE ISqrtFrom(v, r + 1)

\* tf.sqrt
Sqrt(t) ==
  IF ~t.ok THEN Bad
  ELSE LET f(idx) == IF t.val[idx] < 0 THEN -1 ELSE ISqrtFrom(t.val[idx], 0) IN
       Tensor(t.shape, [at \in Idx(t.shape) |-> f(at)])

\* row-major position of an index tuple in a tensor of the given shape
RECURSIVE Ravel(_, _)
Ravel(idx, shape) ==
  IF idx = <<>> THEN 0
  ELSE idx[1] * Prod(Tail(shape)) + Ravel(Tail(idx), Tail(shape))

\* A tensor produced by a collaborator (a draw, a log-density, a moment of
\* the component family): its entries are pairwise distinct, and two seeds
\* give tensors with no entry in common.
Labelled(shape, seed) ==
  LET f(idx) == seed * 100 + Ravel(idx, shape) + 1 IN Tensor(shape,
      [at \in Idx(shape) |-> f(at)])

\* every integer tensor of the given shape with entries in 0..depth-1
IndexTensors(shape, depth) ==
  {[ok |-> TRUE, shape |-> shape, val |-> v] :
     v \in [Idx(shape) -> 0..(depth - 1)]}

\* Python's None, for a tensor-valued attribute
None == [ok |-> FALSE, shape |-> <<>>, val |-> [i \in {} |-> 0]]
\* an unknown dimension of a static shape, and None for num_components
NoneDim == -1

(***************************************************************************)
(* Static shapes (tf.TensorShape).  A static shape has a known or unknown  *)
(* rank; a known rank comes with dimensions, each known or NoneDim.        *)
(***************************************************************************)
StaticShape(known, dims) == [known |-> known, dims |-> dims]

\* Dimension.is_compatible_with
DimCompatible(a, b) == a = NoneDim \/ b = NoneDim \/ a = b

\* TensorShape.is_compatible_with
ShapeCompatible(s1, s2) ==
  \/ ~s1.known
  \/ ~s2.known
  \/ /\ Len(s1.dims) = Len(s2.dims)
     /\ \A i \in 1..Len(s1.dims) : DimCompatible(s1.dims[i], s2.dims[i])

\* TensorShape.__getitem__(-1): the last dimension; an unknown dimension when
\* the rank is unknown
LastDim(s) == IF ~s.known THEN NoneDim ELSE s.dims[Len(s.dims)]

\* TensorShape.__getitem__(slice(None, -1))
ButLast(s) ==
  IF ~s.known THEN s ELSE StaticShape(TRUE, SubSeq(s.dims, 1, Len(s.dims) - 1))

\* TensorShape.__getitem__(0) and __getitem__(slice(1, None))
FirstDim(s) == s.dims[1]
ButFirst(s) == StaticShape(TRUE, Tail(s.dims))

\* the static shape under which a tensor of runtime shape dims is declared
\* to the graph: fully known, last dimension unknown, or rank unknown
Statics == {"known", "last_unknown", "rank_unknown"}
StaticOf(dims, how) ==
  CASE how = "known" -> StaticShape(TRUE, dims)
    [] how = "last_unknown" ->
         StaticShape(TRUE, SubSeq(dims, 1, Len(dims) - 1) \o <<NoneDim>>)
    [] OTHER -> StaticShape(FALSE, <<>>)

\* tf.reshape(t, shape): the entries in row-major order, under a new shape
Reshape(t, shape) ==
  IF ~t.ok \/ Prod(t.shape) # Prod(shape) THEN Bad
  ELSE LET f(idx) == t.val[CHOOSE j \in Idx(t.shape) :
                             Ravel(j, t.shape) = Ravel(idx, shape)] IN
       Tensor(shape, [at \in Idx(shape) |-> f(at)])

(***************************************************************************)
(* The state: the arguments of the constructor call, the attributes of the *)
(* constructed object, and the record of the last call made on it.         *)
(***************************************************************************)
VARIABLES
  pc,               \* "new", "failed", "constructed" (no call pending) or
                    \* "returned" (a call has returned, ret holds its record)
  error,            \* what the constructor raised ("none" if nothing)
  args,             \* the arguments the constructor was called with
  cat_p,            \* self._cat.p, the weights tensor
  p_shape,          \* self._cat.p.shape, its static shape
  cat,              \* the realized value of self._cat
  components,       \* the realized value of self._components
  num_components,   \* self._num_components
  mean_val,         \* self._mean_val
  variance_val,     \* self._variance_val
  stddev_val,       \* self._stddev_val
  value,            \* self._value
  init_sample,      \* the _sample_n call made by the constructor
  ret               \* the last call on the object and what it returned

vars == <<pc, error, args, cat_p, p_shape, cat, components, num_components,
          mean_val, variance_val, stddev_val, value, init_sample, ret>>

NoArgs ==
  [validate_args |-> FALSE, params_is_dict |-> TRUE, component_dist |-> "family",
   weights |-> <<>>, static |-> "known", comp_batch |-> <<>>,
   event_shape |-> <<>>, sample_shape |-> <<>>]

NoCall ==
  [op |-> "none", n |-> 0, had_value |-> FALSE, mode |-> "none",
   cat_sample |-> None, comp_sample |-> None, log_probs |-> None,
   used |-> "none", result |-> None, raised |-> "none"]

(***************************************************************************)
(* The collaborators: the categorical variable and the component ensemble. *)
(***************************************************************************)
\* the weights: every entry a power of two, no two entries equal
Weights(shape) == LET f(idx) == Pow2(Ravel(idx, shape)) IN Tensor(shape,
    [at \in Idx(shape) |-> f(at)])

\* self.cat.sample(n): any index array of shape [n] + batch_shape
CatSample(n, batch, depth) == IndexTensors(<<n>> \o batch, depth)

\* self.components.sample(n): shape [n] + components' batch + event shape
CompSample(n, comp_batch, event, seed) ==
  Labelled(<<n>> \o comp_batch \o event, seed)

\* self.components.log_prob(x) and conjugate_log_prob(x): one entry per
\* sample, component and batch position; the event axes are consumed, the
\* other axes of x broadcast against the components' batch shape.  The
\* entries (logarithms to base 2) are pairwise distinct.
CompLogProb(x, comp_batch, event, seed) ==
  LET xs == SubSeq(x.shape, 1, Len(x.shape) - Len(event))
      shape == BroadcastShape(xs, comp_batch)
      f(idx) == Ravel(idx, shape) + seed IN
  IF ~x.ok \/ ~CanBroadcast(xs, comp_batch) THEN Bad ELSE Tensor(shape,
      [at \in Idx(shape) |-> f(at)])

\* the steps of the moment block that can raise
MomentSteps ==
  {"mean", "variance", "mean_sq", "sum_mean", "sum_mean_sq", "subtract", "sqrt"}

(***************************************************************************)
(* ParamMixture._sample_n                                                  *)
(***************************************************************************)
\* the while loop: trailing size-1 axes until the rank is reached
RECURSIVE ExpandTo(_, _)
ExpandTo(t, r) ==
  IF ~t.ok \/ Rank(t) >= r THEN t ELSE ExpandTo(ExpandDims(t, -1), r)

\* _sample_n with the component axis computed from the batch rank alone
SampleNBatchAxis(val, cat_val, comp_val, depth, batch_rank, event_rank, n, cat_draw, comp_draw) ==
  LET fresh == val # None
      cat_sample ==
        IF fresh THEN cat_draw
        ELSE IF n = 1 THEN ExpandDims(cat_val, 0) ELSE cat_val
      comp_sample ==
        IF fresh THEN comp_draw
        ELSE IF n = 1 THEN ExpandDims(comp_val, 0) ELSE comp_val
      cat_axis == Rank(comp_sample) - 1 - batch_rank
      selecter == ExpandTo(OneHot(cat_sample, depth, cat_axis), Rank(comp_sample))
      result == ReduceSum(Mul(comp_sample, selecter), cat_axis)
  IN [mode |-> IF fresh THEN "fresh" ELSE "reuse",
      cat_sample |-> cat_sample, comp_sample |-> comp_sample,
      result |-> result]

\* _sample_n that takes the realized values of cat and components whether
\* or not the mixture holds a value
SampleNAlwaysReuse(val, cat_val, comp_val, depth, batch_rank, event_rank, n, cat_draw, comp_draw) ==
  LET cat_sample == IF n = 1 THEN ExpandDims(cat_val, 0) ELSE cat_val
      comp_sample == IF n = 1 THEN ExpandDims(comp_val, 0) ELSE comp_val
      batch_event_rank == event_rank + batch_rank
      cat_axis == Rank(comp_sample) - 1 - batch_event_rank
      selecter == ExpandTo(OneHot(cat_sample, depth, cat_axis), Rank(comp_sample))
      result == ReduceSum(Mul(comp_sample, selecter), cat_axis)
  IN [mode |-> "reuse",
      cat_sample |-> cat_sample, comp_sample |-> comp_sample,
      result |-> result]

\* val is self._value; cat_draw and comp_draw are what self.cat.sample(n) and
\* self.components.sample(n) return if they are called
SampleN(val, cat_val, comp_val, depth, batch_rank, event_rank, n, cat_draw, comp_draw) ==
  LET fresh == val # None
      cat_sample ==
        IF fresh THEN cat_draw
        ELSE IF n = 1 THEN ExpandDims(cat_val, 0) ELSE cat_val
      comp_sample ==
        IF fresh THEN comp_draw
        ELSE IF n = 1 THEN ExpandDims(comp_val, 0) ELSE comp_val
      batch_event_rank == event_rank + batch_rank
      cat_axis == Rank(comp_sample) - 1 - batch_event_rank
      selecter == ExpandTo(OneHot(cat_sample, depth, cat_axis), Rank(comp_sample))
      result == ReduceSum(Mul(comp_sample, selecter), cat_axis)
  IN [mode |-> IF fresh THEN "fresh" ELSE "reuse",
      cat_sample |-> cat_sample, comp_sample |-> comp_sample,
      result |-> result]

(***************************************************************************)
(* ParamMixture.__init__                                                   *)
(***************************************************************************)
\* The moment block.  fail names the step that raises ("none": no step does
\* unless the shapes make it).  A step that raises ends the block, keeping
\* what was assigned before it.
MomentBlock(p, comp_batch, event, fail) ==
  LET Step(name, t) == IF fail = name THEN Bad ELSE t
      comp_means == Step("mean", Labelled(comp_batch \o event, 0))
      comp_vars ==
        IF ~comp_means.ok THEN Bad
        ELSE Step("variance", Labelled(comp_batch \o event, 1))
      comp_mean_sq == Step("mean_sq", Add(Square(comp_means), comp_vars))
      weights ==
        IF ~comp_mean_sq.ok THEN Bad ELSE ExpandTo(p, Rank(p) + Len(event))
      mean == Step("sum_mean", ReduceSum(Mul(comp_means, weights), 0))
      mean_sq_val ==
        IF ~mean.ok THEN Bad
        ELSE Step("sum_mean_sq", ReduceSum(Mul(comp_mean_sq, weights), 0))
      variance == Step("subtract", Subtract(mean_sq_val, Square(mean)))
      stddev == Step("sqrt", Sqrt(variance))
  IN [mean |-> IF mean.ok THEN mean ELSE None,
      variance |-> IF variance.ok THEN variance ELSE None,
      stddev |-> IF stddev.ok THEN stddev ELSE None]

\* the moments when the block is not entered
NoMoments ==
  [mean |-> None, variance |-> None, stddev |-> None]

\* self._cat.p.shape.as_list()[-1] under the bare except: raises exactly
\* when as_list() does, that is when the rank is unknown
NumComponents(static) ==
  IF ~static.known THEN [raises |-> TRUE, k |-> NoneDim]
  ELSE [raises |-> FALSE, k |-> static.dims[Len(static.dims)]]

\* isinstance(component_dist, RandomVariable): true of an instance, false of
\* a distribution family (a class)
IsRandomVariableInstance(dist) == dist = "instance"

\* component_dist(...): a family is called to build the ensemble; an instance
\* is not callable
IsCallable(dist) == dist = "family"

\* the two shape checks made under validate_args
ShapesMatch(static, comp_batch) ==
  /\ DimCompatible(LastDim(static), FirstDim(StaticShape(TRUE, comp_batch)))
  /\ ShapeCompatible(ButLast(static), ButFirst(StaticShape(TRUE, comp_batch)))

\* RandomVariable.__init__: the value of the new variable is
\* self.sample(sample_shape), which calls _sample_n(n) with n the number of
\* entries of sample_shape and reshapes what it returns to
\* sample_shape + its shape without the leading axis
InitialN(sample_shape) == Prod(sample_shape)
InitialValue(sample_shape, samples) ==
  IF ~samples.ok \/ Rank(samples) = 0 THEN Bad
  ELSE Reshape(samples, sample_shape \o Tail(samples.shape))

\* the component batch shapes offered to the constructor
CompBatchShapes ==
  {<<k>> \o b : k \in ComponentCounts, b \in BatchShapes}

\* the weights' shapes offered to the constructor
WeightShapes ==
  {b \o <<k>> : k \in ComponentCounts, b \in BatchShapes}

Failed(a, e) ==
  /\ pc' = "failed"
  /\ error' = e
  /\ args' = a
  /\ cat_p' = None
  /\ p_shape' = StaticShape(FALSE, <<>>)
  /\ cat' = None
  /\ components' = None
  /\ num_components' = NoneDim
  /\ mean_val' = None
  /\ variance_val' = None
  /\ stddev_val' = None
  /\ value' = None
  /\ init_sample' = NoCall
  /\ ret' = NoCall

\* ParamMixture(mixing_weights, component_params, component_dist,
\*              validate_args, sample_shape=...)
\* a.static: the static shape the weights are declared with; fail: the step
\* of the moment block that raises; cat_val, seed: the realized values of the
\* categorical variable and of the component ensemble
Construct(a, fail, cat_val, seed) ==
  LET static == StaticOf(a.weights, a.static)
      nc == NumComponents(static)
      batch_rank == Len(static.dims) - 1
      p == Weights(a.weights)
      comp_val == Labelled(a.sample_shape \o a.comp_batch \o a.event_shape, seed)
      m == IF Len(static.dims) <= 1
           THEN MomentBlock(p, a.comp_batch, a.event_shape, fail)
           ELSE NoMoments
      n == InitialN(a.sample_shape)
      s == SampleN(None, cat_val, comp_val, nc.k, batch_rank,
                   Len(a.event_shape), n, None, None)
      v == InitialValue(a.sample_shape, s.result)
  IN
  /\ pc = "new"
  /\ IF ~a.params_is_dict THEN Failed(a, "AttributeError")
     ELSE IF a.validate_args /\ ~IsRandomVariableInstance(a.component_dist)
       THEN Failed(a, "InvalidArgumentType")
     ELSE IF ~IsCallable(a.component_dist) THEN Failed(a, "NotCallable")
     ELSE IF a.validate_args /\ ~ShapesMatch(static, a.comp_batch)
       THEN Failed(a, "ShapeMismatch")
     ELSE IF nc.raises THEN Failed(a, "UndeterminedComponentCount")
     ELSE IF ~v.ok THEN Failed(a, "SampleError")
     ELSE /\ pc' = "constructed"
          /\ error' = "none"
          /\ args' = a
          /\ cat_p' = p
          /\ p_shape' = static
          /\ cat' = cat_val
          /\ components' = comp_val
          /\ num_components' = nc.k
          /\ mean_val' = m.mean
          /\ variance_val' = m.variance
          /\ stddev_val' = m.stddev
          /\ value' = v
          /\ ret' = NoCall
          /\ init_sample' =
               [NoCall EXCEPT !.op = "sample", !.n = n, !.mode = s.mode,
                              !.cat_sample = s.cat_sample,
                              !.comp_sample = s.comp_sample,
                              !.result = s.result]

\* the arguments offered to the constructor
ArgSets ==
  [validate_args : BOOLEAN, params_is_dict : BOOLEAN,
   component_dist : {"family", "instance"},
   weights : WeightShapes, static : Statics, comp_batch : CompBatchShapes,
   event_shape : EventShapes, sample_shape : SampleShapes]

DoConstruct ==
  /\ pc = "new"
  /\ \E a \in ArgSets, fail \in MomentSteps \cup {"none"} :
       \E cat_val \in IndexTensors(
             a.sample_shape \o SubSeq(a.weights, 1, Len(a.weights) - 1),
             a.weights[Len(a.weights)]) :
         Construct(a, fail, cat_val, 0)

(***************************************************************************)
(* Calls on a constructed mixture.                                         *)
(***************************************************************************)
BatchRank == Len(p_shape.dims) - 1
EventRank == Len(args.event_shape)
BatchOf(a) == SubSeq(a.weights, 1, Len(a.weights) - 1)

\* x.sample(n), n >= 1, on the constructed mixture
Sample(n, cat_draw, seed) ==
  LET s == SampleN(value, cat, components, num_components, BatchRank, EventRank,
                   n, cat_draw, CompSample(n, args.comp_batch, args.event_shape, seed))
  IN
  /\ pc = "constructed"
  /\ pc' = "returned"
  /\ ret' = [NoCall EXCEPT !.op = "sample", !.n = n, !.had_value = (value # None),
                           !.mode = s.mode,
                           !.cat_sample = s.cat_sample,
                           !.comp_sample = s.comp_sample,
                           !.result = s.result,
                           !.raised = IF s.result.ok THEN "none" ELSE "error"]
  /\ UNCHANGED <<error, args, cat_p, p_shape, cat, components,
                 num_components, mean_val, variance_val, stddev_val,
                 value, init_sample>>

DoSample ==
  /\ pc = "constructed"
  /\ \E n \in 1..MaxN, seed \in Seeds :
    \E cat_draw \in CatSample(n, BatchOf(args), args.weights[Len(args.weights)]) :
      Sample(n, cat_draw, seed)

\* ParamMixture._log_prob(x, conjugate)
LogProbOf(x, conjugate, seed) ==
  LET batch_event_rank == EventRank + BatchRank
      expanded_x == ExpandDims(x, -1 - batch_event_rank)
      log_probs == CompLogProb(expanded_x, args.comp_batch, args.event_shape, seed)
      selecter == OneHot(cat, num_components,
                         Rank(components) - 1 - batch_event_rank)
      result == ReduceSum(Mul(log_probs, selecter), -1 - batch_event_rank)
  IN [NoCall EXCEPT !.op = "log_prob",
                    !.used = IF conjugate THEN "conjugate_log_prob" ELSE "log_prob",
                    !.log_probs = log_probs,
                    !.cat_sample = cat,
                    !.result = result,
                    !.raised = IF result.ok THEN "none" ELSE "error"]

\* none of the calls below assigns an attribute of the object
Returns ==
  /\ pc' = "returned"
  /\ UNCHANGED <<error, args, cat_p, p_shape, cat, components,
                 num_components, mean_val, variance_val, stddev_val,
                 value, init_sample>>

\* an observation: shape sample_shape + batch_shape + event_shape
Observation(seed) ==
  Labelled(args.sample_shape \o BatchOf(args) \o args.event_shape, seed)

\* x.log_prob(obs)
LogProb ==
  /\ pc = "constructed"
  /\ \E seed \in Seeds : ret' = LogProbOf(Observation(seed), FALSE, seed)
  /\ Returns

\* x.conjugate_log_prob(): _log_prob of the mixture's own value
ConjugateLogProb ==
  /\ pc = "constructed"
  /\ \E seed \in Seeds :
       ret' = [LogProbOf(value, TRUE, seed) EXCEPT !.op = "conjugate_log_prob"]
  /\ Returns

\* ParamMixture.marginal_log_prob(x)
MarginalLogProbOf(x, seed) ==
  LET batch_event_rank == EventRank + BatchRank
      expanded_x == ExpandDims(x, -1 - batch_event_rank)
      log_probs == CompLogProb(expanded_x, args.comp_batch, args.event_shape, seed)
      p_ndims == Len(p_shape.dims)
      perm == <<p_ndims - 1>> \o [i \in 1..(p_ndims - 1) |-> i - 1]
      transposed_p == Transpose(cat_p, perm)
      result == ReduceLogSumExp(Add(log_probs, Log(transposed_p)),
                                -1 - batch_event_rank)
  IN [NoCall EXCEPT !.op = "marginal_log_prob",
                    !.used = "log_prob",
                    !.log_probs = log_probs,
                    !.result = result,
                    !.raised = IF result.ok THEN "none" ELSE "error"]

MarginalLogProb ==
  /\ pc = "constructed"
  /\ \E seed \in Seeds : ret' = MarginalLogProbOf(Observation(seed), seed)
  /\ Returns

\* an accessor without the None test: it returns the attribute as it is
AccessorUnchecked(op, cached) ==
  [NoCall EXCEPT !.op = op, !.result = cached]

\* ParamMixture._mean, _std, _variance
Accessor(op, cached) ==
  IF cached = None
  THEN [NoCall EXCEPT !.op = op, !.raised = "MomentsUnavailable"]
  ELSE [NoCall EXCEPT !.op = op, !.result = cached]

Mean ==
  /\ pc = "constructed"
  /\ ret' = Accessor("mean", mean_val)
  /\ Returns

Std ==
  /\ pc = "constructed"
  /\ ret' = Accessor("stddev", stddev_val)
  /\ Returns

Variance ==
  /\ pc = "constructed"
  /\ ret' = Accessor("variance", variance_val)
  /\ Returns

Init ==
  /\ pc = "new"
  /\ error = "none"
  /\ args = NoArgs
  /\ cat_p = None
  /\ p_shape = StaticShape(FALSE, <<>>)
  /\ cat = None
  /\ components = None
  /\ num_components = NoneDim
  /\ mean_val = None
  /\ variance_val = None
  /\ stddev_val = None
  /\ value = None
  /\ init_sample = NoCall
  /\ ret = NoCall

\* the caller drops what the call returned; the object is as before the call
Discard ==
  /\ pc = "returned"
  /\ pc' = "constructed"
  /\ ret' = NoCall
  /\ UNCHANGED <<error, args, cat_p, p_shape, cat, components,
                 num_components, mean_val, variance_val, stddev_val,
                 value, init_sample>>

Next ==
  \/ DoConstruct
  \/ DoSample
  \/ LogProb
  \/ ConjugateLogProb
  \/ MarginalLogProb
  \/ Mean
  \/ Std
  \/ Variance
  \/ Discard

Spec == Init /\ [][Next]_vars

(***************************************************************************)
(* Vocabulary of the properties.                                           *)
(***************************************************************************)
Built == pc \in {"constructed", "returned"}
Tried == pc # "new"

\* W[-1] == C[0] and W[:-1] equal to C[1:]
Conforming(a) ==
  /\ a.weights[Len(a.weights)] = a.comp_batch[1]
  /\ BatchOf(a) = Tail(a.comp_batch)

\* a name-to-array mapping, a distribution family, conforming shapes
WellFormed(a) ==
  /\ a.params_is_dict
  /\ a.component_dist = "family"
  /\ Conforming(a)

\* the call's result picks, at every leading (draw) index i, batch position
\* b and event position e, the entry of comp_sample at (i, k, b, e) with
\* k the entry of cat_sample at (i, b)
SelectsDrawn(call) ==
  LET c == call.comp_sample
      k == call.cat_sample
      r == call.result
      nb == Len(BatchOf(args))
      lead == Rank(k) - nb
  IN /\ r.ok
     /\ Rank(c) = lead + 1 + nb + Len(args.event_shape)
     /\ r.shape = RemoveAt(c.shape, lead + 1)
     /\ \A idx \in Idx(r.shape) :
          r.val[idx] =
            c.val[SubSeq(idx, 1, lead)
                  \o <<k.val[SubSeq(idx, 1, lead + nb)]>>
                  \o SubSeq(idx, lead + 1, Len(idx))]

\* the entries of a tensor in row-major order
Flat(t) ==
  [i \in 1..Prod(t.shape) |->
     t.val[CHOOSE j \in Idx(t.shape) : Ravel(j, t.shape) = i - 1]]

\* C1: in a sample(n) call, in the fresh-draw mode and in the reuse mode,
\* the value returned at every draw index, batch position and event position
\* is the entry of comp_sample for the component that cat_sample names at
\* that draw index and batch position.
C1_SampleSelectsCategorical ==
  (Built /\ Conforming(args)) =>
     /\ SelectsDrawn(init_sample)
     /\ (ret.op = "sample" => SelectsDrawn(ret))

\* two components, two draws that name different components, a batch axis
\* and an event axis: reached in the reuse mode (the constructor's call) and
\* in the fresh mode (a later call)
Mixed(call) ==
  /\ call.op = "sample"
  /\ call.n = 2
  /\ call.result.ok
  /\ \E i, j \in Idx(call.cat_sample.shape) :
       call.cat_sample.val[i] # call.cat_sample.val[j]

C1_Witness ==
  /\ pc = "returned"
  /\ Conforming(args)
  /\ args.event_shape # <<>>
  /\ BatchOf(args) # <<>>
  /\ init_sample.mode = "reuse" /\ Mixed(init_sample)
  /\ ret.mode = "fresh" /\ Mixed(ret)

\* C2: log_prob(x), for x of shape sample_shape + batch_shape + event_shape,
\* has shape sample_shape + batch_shape and at (s, b) holds the component
\* ensemble's log-probability for the component cat[s, b], whatever the event
\* rank and the batch rank.
C2_LogProbSelectsCategorical ==
  (Built /\ Conforming(args) /\ ret.op = "log_prob") =>
     LET sb == args.sample_shape \o BatchOf(args)
         ns == Len(args.sample_shape)
         lp == ret.log_probs
         r == ret.result
     IN /\ r.ok
        /\ r.shape = sb
        /\ lp.ok
        /\ \A idx \in Idx(sb) :
             r.val[idx] =
               lp.val[SubSeq(idx, 1, ns) \o <<cat.val[idx]>>
                      \o SubSeq(idx, ns + 1, Len(idx))]

\* C3: marginal_log_prob(x) uses the components' plain log_prob, does not
\* read the realized categorical value, and has shape
\* sample_shape + batch_shape with, at (s, b),
\* log(sum over k of p[b, k] * exp(log_probs[s, k, b])).
\* (The result tensor stores the exponential of the value returned.)
C3_MarginalSumsOutComponents ==
  (Built /\ Conforming(args) /\ ret.op = "marginal_log_prob") =>
     LET sb == args.sample_shape \o BatchOf(args)
         ns == Len(args.sample_shape)
         lp == ret.log_probs
         r == ret.result
     IN /\ ret.used = "log_prob"
        /\ ret.cat_sample = None
        /\ r.ok
        /\ r.shape = sb
        /\ lp.ok
        /\ \A idx \in Idx(sb) :
             r.val[idx] =
               SumUpTo([k \in 0..(num_components - 1) |->
                          cat_p.val[SubSeq(idx, ns + 1, Len(idx)) \o <<k>>]
                          * Pow2(lp.val[SubSeq(idx, 1, ns) \o <<k>>
                                        \o SubSeq(idx, ns + 1, Len(idx))])],
                       num_components)

\* C4: sample(n) returns shape [n] + batch_shape + event_shape, in the
\* fresh-draw mode and in the reuse mode alike.
C4_SampleShape ==
  (Built /\ Conforming(args)) =>
     LET be == BatchOf(args) \o args.event_shape IN
     /\ init_sample.result.shape = <<init_sample.n>> \o be
     /\ (ret.op = "sample" => ret.result.shape = <<ret.n>> \o be)

\* C5: when W[-1] # C[0] or W[:-1] is not compatible with C[1:],
\* construction raises ShapeMismatch if validation is enabled and raises
\* nothing if it is disabled.
C5_ShapeRejection ==
  (Tried /\ args.params_is_dict /\ args.component_dist = "family"
         /\ args.static = "known" /\ ~Conforming(args)) =>
     IF args.validate_args THEN error = "ShapeMismatch" ELSE error = "none"

\* C6: with validation enabled, construction from well-formed arguments
\* raises nothing and the mixture's batch shape is W[:-1].
C6_WellFormedAccepted ==
  (Tried /\ WellFormed(args) /\ args.static = "known" /\ args.validate_args) =>
     /\ error = "none"
     /\ Built
     /\ SubSeq(p_shape.dims, 1, Len(p_shape.dims) - 1) = BatchOf(args)

\* C7: when the size of the weights' last axis is not statically known,
\* construction raises UndeterminedComponentCount, validation enabled or
\* not; every constructed mixture has a positive integer num_components.
C7_ComponentCountDetermined ==
  /\ (Tried /\ WellFormed(args) /\ args.static # "known") =>
        error = "UndeterminedComponentCount"
  /\ Built => num_components >= 1

\* C8: the cached mean, variance and stddev are all three present or all
\* three absent, whatever step of the moment computation fails.
C8_MomentsAllOrNone ==
  Built =>
     \/ mean_val = None /\ variance_val = None /\ stddev_val = None
     \/ mean_val # None /\ variance_val # None /\ stddev_val # None

\* the errors construction raises for reasons other than the moments: the
\* arguments' types, the shapes, the component count, the first sample
NotFromMoments ==
  \/ ~args.params_is_dict
  \/ args.component_dist # "family"
  \/ args.validate_args
  \/ args.static # "known"
  \/ ~Conforming(args)

\* C9: the moment computation never makes construction fail (construction
\* fails only for a reason that does not involve the moments; with weights
\* of rank > 1 no moment is computed); afterwards mean(), variance() and
\* stddev() each raise MomentsUnavailable exactly when their moment was not
\* computed at construction and otherwise return the cached value.
C9_MomentsLazy ==
  /\ pc = "failed" => NotFromMoments
  /\ (Built /\ Len(p_shape.dims) > 1) =>
        mean_val = None /\ variance_val = None /\ stddev_val = None
  /\ \A op \in {"mean", "variance", "stddev"} :
        (pc = "returned" /\ ret.op = op) =>
           LET cached == CASE op = "mean" -> mean_val
                           [] op = "variance" -> variance_val
                           [] OTHER -> stddev_val
           IN /\ (ret.raised = "MomentsUnavailable") <=> (cached = None)
              /\ cached # None => (ret.raised = "none" /\ ret.result = cached)
              /\ cached = None => ret.result = None

\* well-formed arguments, rank-1 weights, a moment step that raised: the
\* mixture is constructed, the mean is cached, stddev() has raised
C9_Witness ==
  /\ pc = "returned"
  /\ WellFormed(args)
  /\ Len(p_shape.dims) = 1
  /\ mean_val # None
  /\ stddev_val = None
  /\ ret.op = "stddev"
  /\ ret.raised = "MomentsUnavailable"

\* C10: the sampling mode follows the mixture's own realized value.  The
\* call made while the mixture holds no value (the constructor's) reuses the
\* realized values of cat and components, with no draw, and the value the
\* mixture takes is components' realized value at the index cat's realized
\* value gives; a call made once the mixture holds a value draws
\* cat.sample(n) and components.sample(n) afresh and leaves the realized
\* values of the mixture, cat and components unchanged.
C10_ModeFollowsValue ==
  [][ /\ (pc = "new" /\ pc' = "constructed") =>
           /\ value = None
           /\ init_sample'.mode = "reuse"
           /\ Flat(init_sample'.cat_sample) = Flat(cat')
           /\ Flat(init_sample'.comp_sample) = Flat(components')
           /\ value' # None
           /\ Conforming(args') =>
                 LET sb == args'.sample_shape \o BatchOf(args')
                     ns == Len(args'.sample_shape)
                     sel == [ok |-> TRUE,
                             shape |-> sb \o args'.event_shape,
                             val |-> [idx \in Idx(sb \o args'.event_shape) |->
                                components'.val[
                                  SubSeq(idx, 1, ns)
                                  \o <<cat'.val[SubSeq(idx, 1, Len(sb))]>>
                                  \o SubSeq(idx, ns + 1, Len(idx))]]]
                 IN Flat(value') = Flat(sel)
      /\ (pc = "constructed" /\ ret'.op = "sample") =>
           /\ value # None
           /\ ret'.had_value
           /\ ret'.mode = "fresh"
           /\ ret'.cat_sample \in
                 CatSample(ret'.n, BatchOf(args), args.weights[Len(args.weights)])
           /\ \E seed \in Seeds :
                 ret'.comp_sample =
                   CompSample(ret'.n, args.comp_batch, args.event_shape, seed)
           /\ ret'.comp_sample # components
           /\ value' = value
           /\ cat' = cat
           /\ components' = components
    ]_vars

\* a later call has drawn afresh, on a mixture whose value came from a
\* reuse of two realized draws naming different components
C10_Witness ==
  /\ pc = "returned"
  /\ Conforming(args)
  /\ init_sample.mode = "reuse" /\ Mixed(init_sample)
  /\ ret.op = "sample"
  /\ ret.mode = "fresh"
  /\ ret.result.ok
  /\ value # None

====
